---- MODULE Spec2Model ----
(***************************************************************************)
(* Authentication core of the jwt-auth backend: the User model with its    *)
(* validators and hashing hooks (src/src/models/user.js) and the auth      *)
(* controller flows register, login, getProfile, updateUser,               *)
(* forgotPassword and resetPassword (src/unnamed/part_000).                 *)
(*                                                                         *)
(* The relational store is a sequence of user rows; a Sequelize instance   *)
(* is a row value plus the set of attributes marked as changed.  Times are *)
(* milliseconds since the start of the run.  The createdAt and updatedAt   *)
(* columns that Sequelize maintains by itself are read by no auth flow and *)
(* are left out of the rows; they are kept in `stamps` by the              *)
(* specification of the activity feed, the one flow that reads them.       *)
(***************************************************************************)
EXTENDS Integers, Sequences, FiniteSets, TLC

VARIABLES
    users,      \* the Users table: a sequence of rows, row i has id i
    now,        \* Date.now()
    nextTok,    \* number of reset tokens drawn from crypto.randomBytes so far
    last,       \* the HTTP response of the request handled last
    inflight,   \* requests suspended at an await between two store accesses
    medicines,  \* the Medicines table: its rows and its autoincrement counter
    ran,        \* the medicine request handled last and the stages it ran
    stamps      \* the createdAt and updatedAt columns of both tables

vars == <<users, now, nextTok, last, inflight, medicines, ran, stamps>>

---------------------------------------------------------------------------
(* Bounds of the model *)

MaxTicks == 2          \* the clock advances at most this many times
MaxResetTokens == 2    \* at most this many reset tokens are generated
MaxMedicines == 1       \* rows ever inserted into the Medicines table
MaxSessionTicks == 2    \* steps of the clock of the medicine routes
MaxFeedMedicines == 4   \* rows ever inserted into the Medicines table beside the feed
MaxFeedTicks == 1       \* steps of the clock beside the feed

(* Program constants *)

ResetTokenTtl == 3600000     \* Date.now() + 3600000, "1 hour"
JwtExpiresIn == 604800000    \* expiresIn "7d", in milliseconds
UsernameMinLen == 3
UsernameMaxLen == 50
PasswordMinLen == 6
PasswordMaxLen == 100
BcryptHashLen == 60          \* length of a bcrypt hash string
Null == -1                   \* SQL NULL of the two nullable columns

TickMs == ResetTokenTtl \div 2    \* the clock advances in steps of half an hour

---------------------------------------------------------------------------
(* Request inputs.  "" is a field that is missing from the body (falsy).  *)

Usernames == {"", "alice", "bob"}
Emails == {"", "a@x.com", "b@x.com"}
Passwords == {"", "short", "secret1", "newpass123"}
RoleInputs == {"", "root", "admin", "doctor"}
Salts == {1}
Procs == {1, 2}

\* Every request body of register and updateUser over these values.
AllBodies ==
    [username : Usernames, email : Emails, password : Passwords, role : RoleInputs]

\* The bodies of the specification of all flows: alice registers with
\* a@x.com and bob with b@x.com, alice alone asks for the admin role, and an
\* update carries a password and a role only.
Accounts == {<<"alice", "a@x.com">>, <<"bob", "b@x.com">>}

RegisterBodies ==
    {b \in [username : Usernames, email : Emails,
            password : {"", "short", "secret1"}, role : {"", "root", "admin"}] :
        \/ /\ <<b.username, b.email>> \in Accounts
           /\ b.role = "admin" => b.username = "alice"
        \/ <<b.username, b.email, b.role>> \in
              {<<"", "a@x.com", "">>, <<"alice", "", "">>}}

\* The bodies of the specification of concurrent registrations.
ConcurrentBodies ==
    [username : {"alice", "bob"}, email : {"a@x.com", "b@x.com"},
     password : {"", "short", "secret1"}, role : {""}]

UpdateBodies ==
    [username : {""}, email : {""}, password : {"", "short", "newpass123"},
     role : {"", "root"}]

Roles == {"admin", "doctor", "staff", "patient"}

\* validator.js isEmail on the addresses of the model
IsEmail(s) == s \in {"a@x.com", "b@x.com"}

---------------------------------------------------------------------------
(* Password Hasher: bcryptjs.  A password value is the text it was derived *)
(* from, the number of times it went through bcrypt.hash, and the salt of  *)
(* the last hashing.                                                       *)

Plain(p) == [depth |-> 0, text |-> p, salt |-> 0]

bcryptHash(v, salt) == [depth |-> v.depth + 1, text |-> v.text, salt |-> salt]

bcryptCompare(p, h) == h.depth = 1 /\ h.text = p

IsHash(v) == v.depth >= 1

PasswordLen(v) == IF v.depth = 0 THEN Len(v.text) ELSE BcryptHashLen

---------------------------------------------------------------------------
(* The User model *)

Attributes ==
    {"id", "username", "email", "password", "role", "resetPasswordToken",
     "resetPasswordExpires"}

\* The validators of the attributes in `fields`, in attribute order; the
\* result is the list of messages of SequelizeValidationError.
ValidateUsername(inst) ==
    IF Len(inst.username) >= UsernameMinLen /\ Len(inst.username) <= UsernameMaxLen
    THEN <<>> ELSE <<"Username must be between 3 and 50 characters">>

ValidateEmail(inst) ==
    IF IsEmail(inst.email) THEN <<>> ELSE <<"Must be a valid email address">>

\* Mutant: the len validator of password has no lower limit.
ValidatePassword_NoMinimum(inst) ==
    IF PasswordLen(inst.password) <= PasswordMaxLen
    THEN <<>> ELSE <<"Password must be at least 6 characters long">>

ValidatePassword(inst) ==
    IF PasswordLen(inst.password) >= PasswordMinLen
       /\ PasswordLen(inst.password) <= PasswordMaxLen
    THEN <<>> ELSE <<"Password must be at least 6 characters long">>

\* Mutant: the role carries no isIn validator.
ValidateRole_Any(inst) == <<>>

ValidateRole(inst) ==
    IF inst.role \in Roles THEN <<>>
    ELSE <<"Role must be admin, doctor, staff, or patient">>

Validate(inst, fields) ==
    (IF "username" \in fields THEN ValidateUsername(inst) ELSE <<>>)
    \o (IF "email" \in fields THEN ValidateEmail(inst) ELSE <<>>)
    \o (IF "password" \in fields THEN ValidatePassword(inst) ELSE <<>>)
    \o (IF "role" \in fields THEN ValidateRole(inst) ELSE <<>>)

\* Mutant: the hook leaves the password as it was given.
beforeCreate_NoHash(inst, salt) == inst

\* hooks.beforeCreate
beforeCreate(inst, salt) ==
    IF inst.password.text # ""
    THEN [inst EXCEPT !.password = bcryptHash(inst.password, salt)]
    ELSE inst

\* Mutant: the hook leaves the password as it was assigned.
beforeUpdate_NoHash(inst, changed, salt) == inst

\* hooks.beforeUpdate
beforeUpdate(inst, changed, salt) ==
    IF "password" \in changed
    THEN [inst EXCEPT !.password = bcryptHash(inst.password, salt)]
    ELSE inst

\* Mutant: the columns carry no unique index.
UniqueViolations_None(tbl, inst, fields) == {}

\* The unique columns of `inst` among `fields` that collide with another row.
UniqueViolations(tbl, inst, fields) ==
    {f \in {"username", "email"} \cap fields :
        \E i \in DOMAIN tbl : i # inst.id /\ tbl[i][f] = inst[f]}

\* Mutant: the password stays in the serialized user.
toJSON_KeepsPassword(inst) == inst

\* User.toJSON
toJSON(inst) == [f \in (DOMAIN inst) \ {"password"} |-> inst[f]]

\* The outcome of a store write: the error raised (err = "" for none), the
\* table afterwards and the instance as the caller holds it afterwards.
Outcome(err, messages, path, tbl, inst) ==
    [err |-> err, messages |-> messages, path |-> path, tbl |-> tbl, inst |-> inst]

\* User.build(values): an instance that is not persisted yet (id 0).
Build(values) ==
    [id |-> 0,
     username |-> values.username,
     email |-> values.email,
     password |-> Plain(values.password),
     role |-> values.role,
     resetPasswordToken |-> Null,
     resetPasswordExpires |-> Null]

\* Mutant: the INSERT checks no unique index.
Insert_Unchecked(tbl, inst) ==
    LET row == [inst EXCEPT !.id = Len(tbl) + 1]
    IN  {Outcome("", <<>>, "", Append(tbl, row), row)}

\* The INSERT of a built instance: the unique indexes reject a row whose
\* username or email is taken; when both collide the column the store
\* reports is its own choice.  The new row gets the next id.
Insert(tbl, inst) ==
    LET dups == UniqueViolations(tbl, inst, {"username", "email"})
        row == [inst EXCEPT !.id = Len(tbl) + 1]
    IN  IF dups # {}
        THEN {Outcome("SequelizeUniqueConstraintError", <<>>, f, tbl, inst) :
                f \in dups}
        ELSE {Outcome("", <<>>, "", Append(tbl, row), row)}

\* The part of User.create(values) that runs before the INSERT: build,
\* validate every attribute, beforeCreate.  The result is the error or the
\* instance to insert.
Prepare(values, salt) ==
    LET built == Build(values)
        errs == Validate(built, Attributes)
    IN  IF errs # <<>>
        THEN Outcome("SequelizeValidationError", errs, "", <<>>, built)
        ELSE Outcome("", <<>>, "", <<>>, beforeCreate(built, salt))

\* User.create(values)
Create(tbl, values, salt) ==
    LET prepared == Prepare(values, salt)
    IN  IF prepared.err # ""
        THEN {[prepared EXCEPT !.tbl = tbl]}
        ELSE Insert(tbl, prepared.inst)

\* instance.set(key, value) / instance.key = value: the attribute is marked
\* as changed when the value differs from the one the instance holds.
Instance(row) == [values |-> row, changed |-> {}]

set(inst, key, value) ==
    [values |-> [inst.values EXCEPT ![key] = value],
     changed |-> IF value # inst.values[key]
                 THEN inst.changed \cup {key} ELSE inst.changed]

\* instance.setDataValue(key, value) followed by instance.changed(key, true)
setDataValueChanged(inst, key, value) ==
    [values |-> [inst.values EXCEPT ![key] = value],
     changed |-> inst.changed \cup {key}]

\* instance.save() of a persisted instance: validate the changed attributes,
\* beforeUpdate, validate what the hook changed, then UPDATE the changed
\* columns of the row with the instance's id; nothing is written when no
\* attribute is changed.
Save(tbl, inst, salt) ==
    LET errs == Validate(inst.values, inst.changed)
        hooked == beforeUpdate(inst.values, inst.changed, salt)
        errs2 == Validate(hooked, inst.changed \cap {"password"})
        dups == UniqueViolations(tbl, hooked, inst.changed)
        row == tbl[hooked.id]
        written == [f \in DOMAIN row |->
                       IF f \in inst.changed THEN hooked[f] ELSE row[f]]
    IN  IF errs # <<>>
        THEN {Outcome("SequelizeValidationError", errs, "", tbl, inst.values)}
        ELSE IF errs2 # <<>>
        THEN {Outcome("SequelizeValidationError", errs2, "", tbl, hooked)}
        ELSE IF inst.changed = {}
        THEN {Outcome("", <<>>, "", tbl, hooked)}
        ELSE IF dups # {}
        THEN {Outcome("SequelizeUniqueConstraintError", <<>>, f, tbl, hooked) :
                f \in dups}
        ELSE {Outcome("", <<>>, "", [tbl EXCEPT ![hooked.id] = written], hooked)}

---------------------------------------------------------------------------
(* Token Codec: jwt.sign in generateToken.  A token is its verified claims. *)

\* Mutant: the role claim is the default role, not the user's.
generateToken_DefaultRole(user, t) ==
    [userId |-> user.id, email |-> user.email, role |-> "staff",
     exp |-> t + JwtExpiresIn]

\* Mutant: the token is signed for twice the lifetime.
generateToken_LongLived(user, t) ==
    [userId |-> user.id, email |-> user.email, role |-> user.role,
     exp |-> t + 2 * JwtExpiresIn]

generateToken(user, t) ==
    [userId |-> user.id, email |-> user.email, role |-> user.role,
     exp |-> t + JwtExpiresIn]

---------------------------------------------------------------------------
(* Responses.  `user` and `token` hold the data.user and data.token of the *)
(* body when it has them.  A handler's outcome is the table it leaves and  *)
(* the response it sends.                                                  *)

Response(op, status, message, errors, user, token) ==
    [op |-> op, status |-> status, message |-> message, errors |-> errors,
     user |-> user, token |-> token]

NoResponse == Response("", 0, "", <<>>, {}, {})

Result(tbl, resp) == [tbl |-> tbl, resp |-> resp]

InternalServerError(op) == Response(op, 500, "Internal server error", <<>>, {}, {})

ValidationFailed(op, messages) ==
    Response(op, 400, "Validation failed", messages, {}, {})

AlreadyExists(op, field) ==
    Response(op, 400, field \o " already exists", <<>>, {}, {})

\* The catch block shared by register and updateUser.
StoreErrorResponse(op, o) ==
    IF o.err = "SequelizeValidationError"
    THEN ValidationFailed(op, o.messages)
    ELSE IF o.err = "SequelizeUniqueConstraintError"
    THEN AlreadyExists(op, o.path)
    ELSE InternalServerError(op)

---------------------------------------------------------------------------
(* register *)

RequiredMissing(body) ==
    body.username = "" \/ body.email = "" \/ body.password = ""

RegisterRequired ==
    Response("register", 400, "Username, email, and password are required",
             <<>>, {}, {})

CreateValues(body) ==
    [username |-> body.username, email |-> body.email,
     password |-> body.password,
     role |-> IF body.role = "" THEN "staff" ELSE body.role]

RegisterResponse(o, t) ==
    IF o.err = ""
    THEN Response("register", 201, "User registered successfully", <<>>,
                  {toJSON(o.inst)}, {generateToken(o.inst, t)})
    ELSE StoreErrorResponse("register", o)

RegisterOutcomes(tbl, body, t) ==
    IF RequiredMissing(body)
    THEN {Result(tbl, RegisterRequired)}
    ELSE UNION {{Result(o.tbl, RegisterResponse(o, t)) :
                    o \in Create(tbl, CreateValues(body), salt)} : salt \in Salts}

Register(body) ==
    /\ \E out \in RegisterOutcomes(users, body, now) :
          /\ users' = out.tbl
          /\ last' = out.resp
    /\ UNCHANGED <<now, nextTok, inflight, medicines, ran, stamps>>

\* register as it runs beside other requests: the handler is suspended
\* between the in-process part of User.create and its INSERT.  A slot keeps
\* the instance, the number of rows the table had when the request began
\* and, once the request is answered, the response.
Pending(op, inst, began) ==
    [op |-> op, pc |-> "insert", inst |-> inst, began |-> began,
     resp |-> NoResponse]

Done(op, inst, began, resp) ==
    [op |-> op, pc |-> "done", inst |-> inst, began |-> began, resp |-> resp]

RegisterBegin(p, body) ==
    /\ inflight[p] = {}
    /\ IF RequiredMissing(body)
       THEN /\ last' = RegisterRequired
            /\ inflight' = [inflight EXCEPT ![p] =
                    {Done("register", Build(CreateValues(body)), Len(users),
                          RegisterRequired)}]
       ELSE \E salt \in Salts :
            LET prepared == Prepare(CreateValues(body), salt)
            IN  IF prepared.err # ""
                THEN /\ last' = RegisterResponse(prepared, now)
                     /\ inflight' = [inflight EXCEPT ![p] =
                            {Done("register", prepared.inst, Len(users),
                                  RegisterResponse(prepared, now))}]
                ELSE /\ last' = last
                     /\ inflight' = [inflight EXCEPT ![p] =
                            {Pending("register", prepared.inst, Len(users))}]
    /\ UNCHANGED <<users, now, nextTok, medicines, ran, stamps>>

RegisterInsert(p) ==
    /\ \E r \in inflight[p] :
          /\ r.op = "register" /\ r.pc = "insert"
          /\ \E o \in Insert(users, r.inst) :
                /\ users' = o.tbl
                /\ last' = RegisterResponse(o, now)
                /\ inflight' = [inflight EXCEPT ![p] =
                       {Done("register", r.inst, r.began,
                             RegisterResponse(o, now))}]
    /\ UNCHANGED <<now, nextTok, medicines, ran, stamps>>

---------------------------------------------------------------------------
(* login *)

LoginAttributes == {"id", "username", "email", "password", "role"}

\* User.findOne({ where: { email } }): the first row with that email, if any.
FindByEmail(tbl, email) ==
    LET hits == {i \in DOMAIN tbl : tbl[i].email = email}
    IN  IF hits = {} THEN {}
        ELSE {tbl[CHOOSE i \in hits : \A j \in hits : i <= j]}

LoginRequired ==
    Response("login", 400, "Email and password are required", <<>>, {}, {})

\* Mutant: an unknown email is answered like forgotPassword answers it.
LoginUserNotFound_NoAccount ==
    Response("login", 404, "No account with that email", <<>>, {}, {})

\* if (!user)
LoginUserNotFound ==
    Response("login", 401, "Invalid email or password", <<>>, {}, {})

\* if (!isValidPassword)
LoginInvalidPassword ==
    Response("login", 401, "Invalid email or password", <<>>, {}, {})

LoginSuccessful(user, t) ==
    Response("login", 200, "Login successful", <<>>,
             {toJSON(user)}, {generateToken(user, t)})

LoginResponse(tbl, email, password, t) ==
    IF email = "" \/ password = ""
    THEN LoginRequired
    ELSE LET found == FindByEmail(tbl, email)
         IN  IF found = {}
             THEN LoginUserNotFound
             ELSE LET row == CHOOSE u \in found : TRUE
                      user == [f \in LoginAttributes |-> row[f]]
                  IN  IF ~bcryptCompare(password, user.password)
                      THEN LoginInvalidPassword
                      ELSE LoginSuccessful(user, t)

Login(email, password) ==
    /\ last' = LoginResponse(users, email, password, now)
    /\ UNCHANGED <<users, now, nextTok, inflight, medicines, ran, stamps>>

---------------------------------------------------------------------------
(* Access Guard: authenticateToken attaches the user a valid session token *)
(* refers to as req.user.  Every stored user was issued a token when it    *)
(* registered, and a token outlives the horizon of the clock.              *)

AuthenticatedUsers(tbl) == {tbl[i] : i \in DOMAIN tbl}

---------------------------------------------------------------------------
(* getProfile *)

GetProfileResponse(reqUser) ==
    Response("getProfile", 200, "", <<>>, {toJSON(reqUser)}, {})

GetProfile(reqUser) ==
    /\ last' = GetProfileResponse(reqUser)
    /\ UNCHANGED <<users, now, nextTok, inflight, medicines, ran, stamps>>

---------------------------------------------------------------------------
(* updateUser *)

IdParams == {"1", "2"}

\* parseInt(id) on the ids of the model
ParseInt(s) == CASE s = "1" -> 1 [] s = "2" -> 2

\* User.findByPk(id)
FindByPk(tbl, idParam) == {tbl[i] : i \in {j \in DOMAIN tbl : j = ParseInt(idParam)}}

UserNotFound == Response("updateUser", 404, "User not found", <<>>, {}, {})

UnauthorizedToUpdate ==
    Response("updateUser", 403, "Unauthorized to update this user", <<>>, {}, {})

\* Mutant: the permission check lets every authenticated user through.
UpdateForbidden_Never(reqUser, idParam) == FALSE

\* The permission check of updateUser.
UpdateForbidden(reqUser, idParam) ==
    reqUser.role # "admin" /\ reqUser.id # ParseInt(idParam)

\* Mutant: a role in the body is assigned whoever sends it.
MayChangeRole_Anyone(reqUser, body) == body.role # ""

\* "only admins can change roles"
MayChangeRole(reqUser, body) == reqUser.role = "admin" /\ body.role # ""

\* Mutant: an update without a role puts the target back to the default role.
UpdateAssign_DefaultsRole(reqUser, row, body) ==
    LET i0 == Instance(row)
        i1 == IF body.username # "" THEN set(i0, "username", body.username) ELSE i0
        i2 == IF body.email # "" THEN set(i1, "email", body.email) ELSE i1
        i3 == IF body.password # ""
              THEN set(i2, "password", Plain(body.password)) ELSE i2
        i4 == IF MayChangeRole(reqUser, body)
              THEN set(i3, "role", body.role) ELSE set(i3, "role", "staff")
    IN  i4

\* "Update fields if provided"
UpdateAssign(reqUser, row, body) ==
    LET i0 == Instance(row)
        i1 == IF body.username # "" THEN set(i0, "username", body.username) ELSE i0
        i2 == IF body.email # "" THEN set(i1, "email", body.email) ELSE i1
        i3 == IF body.password # ""
              THEN set(i2, "password", Plain(body.password)) ELSE i2
        i4 == IF MayChangeRole(reqUser, body)
              THEN set(i3, "role", body.role) ELSE i3
    IN  i4

UpdateResponse(o) ==
    IF o.err = ""
    THEN Response("updateUser", 200, "User updated successfully", <<>>,
                  {toJSON(o.inst)}, {})
    ELSE StoreErrorResponse("updateUser", o)

UpdateUserOutcomes(tbl, reqUser, idParam, body) ==
    LET found == FindByPk(tbl, idParam)
    IN  IF found = {}
        THEN {Result(tbl, UserNotFound)}
        ELSE IF UpdateForbidden(reqUser, idParam)
        THEN {Result(tbl, UnauthorizedToUpdate)}
        ELSE UNION {{Result(o.tbl, UpdateResponse(o)) :
                        o \in Save(tbl,
                                   UpdateAssign(reqUser, CHOOSE r \in found : TRUE,
                                                body),
                                   salt)} : salt \in Salts}

UpdateUser(reqUser, idParam, body) ==
    /\ \E out \in UpdateUserOutcomes(users, reqUser, idParam, body) :
          /\ users' = out.tbl
          /\ last' = out.resp
    /\ UNCHANGED <<now, nextTok, inflight, medicines, ran, stamps>>

---------------------------------------------------------------------------
(* forgotPassword *)

\* Mutant: the generator repeats itself.
RandomToken_Repeats(n) == 1

\* crypto.randomBytes(32).toString("hex"): the token drawn after n others is
\* distinct from each of them.
RandomToken(n) == n + 1

EmailRequired ==
    Response("forgotPassword", 400, "Email is required", <<>>, {}, {})

NoAccount ==
    Response("forgotPassword", 404, "No account with that email", <<>>, {}, {})

ResetEmailSent ==
    Response("forgotPassword", 200, "Password reset email sent", <<>>, {}, {})

\* Mutant: the token lives for two hours.
ForgotAssign_TwoHours(row, token, t) ==
    set(set(Instance(row), "resetPasswordToken", token),
        "resetPasswordExpires", t + 2 * ResetTokenTtl)

\* Mutant: a token that is on the record is kept.
ForgotAssign_KeepsFirst(row, token, t) ==
    IF row.resetPasswordToken # Null THEN Instance(row)
    ELSE set(set(Instance(row), "resetPasswordToken", token),
             "resetPasswordExpires", t + ResetTokenTtl)

ForgotAssign(row, token, t) ==
    set(set(Instance(row), "resetPasswordToken", token),
        "resetPasswordExpires", t + ResetTokenTtl)

\* Mutant: a rejected sendMail is swallowed.
ForgotPasswordOutcomes_MailSwallowed(tbl, email, mailOk, n, t) ==
    IF email = ""
    THEN {Result(tbl, EmailRequired)}
    ELSE LET found == FindByEmail(tbl, email)
         IN  IF found = {}
             THEN {Result(tbl, NoAccount)}
             ELSE UNION {{Result(o.tbl,
                                 IF o.err = ""
                                 THEN ResetEmailSent
                                 ELSE InternalServerError("forgotPassword")) :
                             o \in Save(tbl,
                                        ForgotAssign(CHOOSE r \in found : TRUE,
                                                     RandomToken(n), t),
                                        salt)} : salt \in Salts}

\* `n` reset tokens were drawn before; mailOk tells whether
\* transporter.sendMail resolves or rejects.
ForgotPasswordOutcomes(tbl, email, mailOk, n, t) ==
    IF email = ""
    THEN {Result(tbl, EmailRequired)}
    ELSE LET found == FindByEmail(tbl, email)
         IN  IF found = {}
             THEN {Result(tbl, NoAccount)}
             ELSE UNION {{Result(o.tbl,
                                 IF o.err = "" /\ mailOk
                                 THEN ResetEmailSent
                                 ELSE InternalServerError("forgotPassword")) :
                             o \in Save(tbl,
                                        ForgotAssign(CHOOSE r \in found : TRUE,
                                                     RandomToken(n), t),
                                        salt)} : salt \in Salts}

ForgotPassword(email, mailOk) ==
    /\ LET drawn == email # "" /\ FindByEmail(users, email) # {}
       IN  /\ drawn => nextTok < MaxResetTokens
           /\ nextTok' = IF drawn THEN nextTok + 1 ELSE nextTok
    /\ \E out \in ForgotPasswordOutcomes(users, email, mailOk, nextTok, now) :
          /\ users' = out.tbl
          /\ last' = out.resp
    /\ UNCHANGED <<now, inflight, medicines, ran, stamps>>

---------------------------------------------------------------------------
(* resetPassword *)

NoToken == 0    \* a request without a token

TokenInputs == 0 .. MaxResetTokens

TokenRequired ==
    Response("resetPassword", 400, "Token and new password are required",
             <<>>, {}, {})

InvalidOrExpiredToken ==
    Response("resetPassword", 400, "Invalid or expired token", <<>>, {}, {})

ResetSuccessful ==
    Response("resetPassword", 200, "Password reset successful", <<>>, {}, {})

\* Mutant: the lookup takes the first row with a token that has not expired.
FindByResetToken_AnyLive(tbl, token, t) ==
    LET hits == {i \in DOMAIN tbl :
                    /\ tbl[i].resetPasswordToken # Null
                    /\ tbl[i].resetPasswordExpires # Null
                    /\ tbl[i].resetPasswordExpires > t}
    IN  IF hits = {} THEN {}
        ELSE {tbl[CHOOSE i \in hits : \A j \in hits : i <= j]}

\* Mutant: a token is still found at the instant it expires.
FindByResetToken_AtExpiry(tbl, token, t) ==
    LET hits == {i \in DOMAIN tbl :
                    /\ tbl[i].resetPasswordToken # Null
                    /\ tbl[i].resetPasswordToken = token
                    /\ tbl[i].resetPasswordExpires # Null
                    /\ tbl[i].resetPasswordExpires >= t}
    IN  IF hits = {} THEN {}
        ELSE {tbl[CHOOSE i \in hits : \A j \in hits : i <= j]}

\* User.findOne({ where: { resetPasswordToken: token,
\*                         resetPasswordExpires: { [Op.gt]: Date.now() } } })
FindByResetToken(tbl, token, t) ==
    LET hits == {i \in DOMAIN tbl :
                    /\ tbl[i].resetPasswordToken # Null
                    /\ tbl[i].resetPasswordToken = token
                    /\ tbl[i].resetPasswordExpires # Null
                    /\ tbl[i].resetPasswordExpires > t}
    IN  IF hits = {} THEN {}
        ELSE {tbl[CHOOSE i \in hits : \A j \in hits : i <= j]}

\* Mutant: a reset puts the user back to the default role.
ResetAssign_DefaultsRole(row, newPassword) ==
    set(set(set(setDataValueChanged(Instance(row), "password",
                                    Plain(newPassword)),
                "resetPasswordToken", Null),
            "resetPasswordExpires", Null),
        "role", "staff")

\* Mutant: the expiry is left on the record when the token is consumed.
ResetAssign_KeepsExpiry(row, newPassword) ==
    set(setDataValueChanged(Instance(row), "password", Plain(newPassword)),
        "resetPasswordToken", Null)

ResetAssign(row, newPassword) ==
    set(set(setDataValueChanged(Instance(row), "password", Plain(newPassword)),
            "resetPasswordToken", Null),
        "resetPasswordExpires", Null)

ResetPasswordOutcomes(tbl, token, newPassword, t) ==
    IF token = NoToken \/ newPassword = ""
    THEN {Result(tbl, TokenRequired)}
    ELSE LET found == FindByResetToken(tbl, token, t)
         IN  IF found = {}
             THEN {Result(tbl, InvalidOrExpiredToken)}
             ELSE UNION {{Result(o.tbl,
                                 IF o.err = "" THEN ResetSuccessful
                                 ELSE InternalServerError("resetPassword")) :
                             o \in Save(tbl,
                                        ResetAssign(CHOOSE r \in found : TRUE,
                                                    newPassword),
                                        salt)} : salt \in Salts}

ResetPassword(token, newPassword) ==
    /\ \E out \in ResetPasswordOutcomes(users, token, newPassword, now) :
          /\ users' = out.tbl
          /\ last' = out.resp
    /\ UNCHANGED <<now, nextTok, inflight, medicines, ran, stamps>>

---------------------------------------------------------------------------
(* forgotPassword and resetPassword as they run beside other requests: each
   is a findOne, an await, and a save of the instance that was read. *)

RaceBodies ==
    {[username |-> "alice", email |-> "a@x.com", password |-> "secret1",
      role |-> ""]}

RaceEmails == {"", "a@x.com", "b@x.com"}
RacePasswords == {"", "secret1", "newpass123"}

\* The slot holds no request that is waiting for the store.
Idle(p) == \A r \in inflight[p] : r.pc = "done"

ResetPending(inst, token, newPassword) ==
    [op |-> "resetPassword", pc |-> "save", inst |-> inst, token |-> token,
     newPassword |-> newPassword, resp |-> NoResponse]

ResetAnswered(token, newPassword, resp) ==
    [op |-> "resetPassword", pc |-> "done", token |-> token,
     newPassword |-> newPassword, resp |-> resp]

ForgotPending(inst) ==
    [op |-> "forgotPassword", pc |-> "save", inst |-> inst, resp |-> NoResponse]

ForgotAnswered(email, resp) ==
    [op |-> "forgotPassword", pc |-> "done", email |-> email, resp |-> resp]

\* forgotPassword up to the row that findOne returns.
ForgotFind(p, email) ==
    /\ Idle(p)
    /\ LET found == FindByEmail(users, email)
           resp == IF email = "" THEN EmailRequired ELSE NoAccount
       IN  IF email = "" \/ found = {}
           THEN /\ last' = resp
                /\ inflight' = [inflight EXCEPT ![p] = {ForgotAnswered(email, resp)}]
           ELSE /\ last' = last
                /\ inflight' = [inflight EXCEPT ![p] =
                       {ForgotPending(CHOOSE r \in found : TRUE)}]
    /\ UNCHANGED <<users, now, nextTok, medicines, ran, stamps>>

\* forgotPassword from the token it draws to its response; the mail is sent.
ForgotSave(p) ==
    /\ nextTok < MaxResetTokens
    /\ \E r \in inflight[p], salt \in Salts :
          /\ r.op = "forgotPassword" /\ r.pc = "save"
          /\ \E o \in Save(users, ForgotAssign(r.inst, RandomToken(nextTok), now),
                          salt) :
                LET resp == IF o.err = "" THEN ResetEmailSent
                            ELSE InternalServerError("forgotPassword")
                IN  /\ users' = o.tbl
                    /\ last' = resp
                    /\ inflight' = [inflight EXCEPT ![p] =
                           {ForgotAnswered(r.inst.email, resp)}]
    /\ nextTok' = nextTok + 1
    /\ UNCHANGED <<now, medicines, ran, stamps>>

\* resetPassword up to the row that findOne returns.
ResetFind(p, token, newPassword) ==
    /\ Idle(p)
    /\ LET found == FindByResetToken(users, token, now)
           resp == IF token = NoToken \/ newPassword = ""
                   THEN TokenRequired ELSE InvalidOrExpiredToken
       IN  IF token = NoToken \/ newPassword = "" \/ found = {}
           THEN /\ last' = resp
                /\ inflight' = [inflight EXCEPT ![p] =
                       {ResetAnswered(token, newPassword, resp)}]
           ELSE /\ last' = last
                /\ inflight' = [inflight EXCEPT ![p] =
                       {ResetPending(CHOOSE r \in found : TRUE, token,
                                     newPassword)}]
    /\ UNCHANGED <<users, now, nextTok, medicines, ran, stamps>>

\* resetPassword from its assignments to its response.
ResetSave(p) ==
    /\ \E r \in inflight[p], salt \in Salts :
          /\ r.op = "resetPassword" /\ r.pc = "save"
          /\ \E o \in Save(users, ResetAssign(r.inst, r.newPassword), salt) :
                LET resp == IF o.err = "" THEN ResetSuccessful
                            ELSE InternalServerError("resetPassword")
                IN  /\ users' = o.tbl
                    /\ last' = resp
                    /\ inflight' = [inflight EXCEPT ![p] =
                           {ResetAnswered(r.token, r.newPassword, resp)}]
    /\ UNCHANGED <<now, nextTok, medicines, ran, stamps>>

---------------------------------------------------------------------------
(* Access Guard and role filter.  middleware/auth and middleware/rbac are
   required by the medicine routes; they follow the contract of the Access
   Guard: a missing header, a token that fails verification (bad signature,
   expired) or a token of no stored user is rejected 401, otherwise the
   user is attached; the role filter rejects 403 a role that is not in the
   allow-list. *)

\* The clock of the medicine routes steps by half the lifetime of a token.
SessionTickMs == JwtExpiresIn \div 2

IssueTimes(t) ==
    {t0 \in {k * SessionTickMs : k \in 0 .. MaxSessionTicks} : t0 <= t}

\* What a request presents: no Authorization header, a token whose
\* signature does not verify, or a token that generateToken signed for a
\* stored user at an instant up to now.
NoHeader == [kind |-> "none"]

Credentials(tbl, t) ==
    {NoHeader}
    \cup {[kind |-> k, claims |-> generateToken(tbl[i], t0)] :
             k \in {"signed", "forged"}, i \in DOMAIN tbl, t0 \in IssueTimes(t)}

\* The users authenticateToken attaches to the request; none: rejected.
authenticateToken(tbl, cred, t) ==
    IF cred.kind # "signed" THEN {}
    ELSE IF t >= cred.claims.exp THEN {}
    ELSE {tbl[i] : i \in {j \in DOMAIN tbl : tbl[j].id = cred.claims.userId}}

requireRole(allow, reqUser) == reqUser.role \in allow

MedicineResponse(op, status, message, data) ==
    [op |-> op, status |-> status, message |-> message, errors |-> <<>>,
     user |-> {}, token |-> {}, data |-> data]

Unauthenticated(op) == MedicineResponse(op, 401, "Unauthenticated", {})

Forbidden(op) == MedicineResponse(op, 403, "Forbidden", {})

---------------------------------------------------------------------------
(* The Medicine model and its controller.  "" is a string field that is
   missing from the body, Null a quantity that is missing. *)

MedicineNames == {"", "aspirin"}
ExpiryDates == {"", "2027-01-01"}
MedicineIds == 1 .. 2

CreateMedicineBodies ==
    {b \in [name : MedicineNames, quantity : {Null}, expiryDate : ExpiryDates,
            description : {""}, createdBy : {""}] :
        b.name # "" \/ b.expiryDate # ""}

UpdateMedicineBodies ==
    [name : {""}, quantity : {7}, expiryDate : {""}, description : {""},
     createdBy : {""}]

MedicineBodies == CreateMedicineBodies \cup UpdateMedicineBodies

FindMedicineByPk(meds, id) == {m \in meds.rows : m.id = id}

MedicineNotFound(op) == MedicineResponse(op, 404, "Medicine not found", {})

createMedicine(meds, body) ==
    IF body.name = "" \/ body.expiryDate = ""
    THEN {Result(meds, MedicineResponse("createMedicine", 400,
                                        "Name and expiry date are required", {}))}
    ELSE LET row == [id |-> meds.nextId, name |-> body.name,
                     quantity |-> IF body.quantity = Null THEN 0
                                  ELSE body.quantity,
                     expiryDate |-> body.expiryDate,
                     description |-> body.description,
                     createdBy |-> body.createdBy]
         IN  {Result([rows |-> meds.rows \cup {row}, nextId |-> meds.nextId + 1],
                     MedicineResponse("createMedicine", 201,
                                      "Medicine added successfully", {row}))}

getMedicines(meds) ==
    {Result(meds, MedicineResponse("getMedicines", 200, "", meds.rows))}

getMedicineById(meds, id) ==
    LET found == FindMedicineByPk(meds, id)
    IN  IF found = {}
        THEN {Result(meds, MedicineNotFound("getMedicineById"))}
        ELSE {Result(meds, MedicineResponse("getMedicineById", 200, "", found))}

\* medicine.update({ name, quantity, expiryDate, description }): the fields
\* that are undefined are left out of the UPDATE.
updateMedicine(meds, id, body) ==
    LET found == FindMedicineByPk(meds, id)
        old == CHOOSE m \in found : TRUE
        new == [old EXCEPT
                  !.name = IF body.name = "" THEN @ ELSE body.name,
                  !.quantity = IF body.quantity = Null THEN @ ELSE body.quantity,
                  !.expiryDate = IF body.expiryDate = "" THEN @
                                 ELSE body.expiryDate,
                  !.description = IF body.description = "" THEN @
                                  ELSE body.description]
    IN  IF found = {}
        THEN {Result(meds, MedicineNotFound("updateMedicine"))}
        ELSE {Result([meds EXCEPT !.rows = (@ \ {old}) \cup {new}],
                     MedicineResponse("updateMedicine", 200,
                                      "Medicine updated successfully", {new}))}

deleteMedicine(meds, id) ==
    LET found == FindMedicineByPk(meds, id)
    IN  IF found = {}
        THEN {Result(meds, MedicineNotFound("deleteMedicine"))}
        ELSE {Result([meds EXCEPT !.rows = @ \ found],
                     MedicineResponse("deleteMedicine", 200,
                                      "Medicine deleted successfully", {}))}

---------------------------------------------------------------------------
(* The medicine routes: authenticateToken, requireRole(allow-list), handler *)

Routes ==
    {"getMedicines", "getMedicineById", "createMedicine", "updateMedicine",
     "deleteMedicine"}

\* Mutant: staff is on the allow-list of create and update.
AllowList_StaffWrites(route) ==
    CASE route \in {"getMedicines", "getMedicineById"} ->
            {"admin", "doctor", "staff"}
      [] route \in {"createMedicine", "updateMedicine"} ->
            {"admin", "doctor", "staff"}
      [] route = "deleteMedicine" -> {"admin", "doctor"}

AllowList(route) ==
    CASE route \in {"getMedicines", "getMedicineById"} ->
            {"admin", "doctor", "staff"}
      [] route \in {"createMedicine", "updateMedicine"} -> {"admin", "doctor"}
      [] route = "deleteMedicine" -> {"admin", "doctor"}

Handler(route, meds, id, body) ==
    CASE route = "getMedicines" -> getMedicines(meds)
      [] route = "getMedicineById" -> getMedicineById(meds, id)
      [] route = "createMedicine" -> createMedicine(meds, body)
      [] route = "updateMedicine" -> updateMedicine(meds, id, body)
      [] route = "deleteMedicine" -> deleteMedicine(meds, id)

\* A request as it went through its route: what it presented, the user
\* that was attached, the stages that ran, the table and the response.
Served(route, cred, attached, stages, meds, resp) ==
    [route |-> route, cred |-> cred, attached |-> attached,
     stages |-> stages, tbl |-> meds, resp |-> resp]

NoRequest == Served("", NoHeader, {}, <<>>, [rows |-> {}, nextId |-> 1], NoResponse)

RouteOutcomes(tbl, meds, route, cred, id, body, t) ==
    LET attached == authenticateToken(tbl, cred, t)
        reqUser == CHOOSE u \in attached : TRUE
    IN  IF attached = {}
        THEN {Served(route, cred, {}, <<"authenticateToken">>, meds,
                     Unauthenticated(route))}
        ELSE IF ~requireRole(AllowList(route), reqUser)
        THEN {Served(route, cred, attached,
                     <<"authenticateToken", "requireRole">>, meds,
                     Forbidden(route))}
        ELSE {Served(route, cred, attached,
                     <<"authenticateToken", "requireRole", route>>,
                     out.tbl, out.resp) :
                 out \in Handler(route, meds, id, body)}

MedicineRoute(route, cred, id, body) ==
    /\ route = "createMedicine" => medicines.nextId <= MaxMedicines
    /\ \E out \in RouteOutcomes(users, medicines, route, cred, id, body, now) :
          /\ medicines' = out.tbl
          /\ last' = out.resp
          /\ ran' = [out EXCEPT !.tbl = NoRequest.tbl]
    /\ UNCHANGED <<users, now, nextTok, inflight, stamps>>

SessionTick ==
    /\ now < MaxSessionTicks * SessionTickMs
    /\ now' = now + SessionTickMs
    /\ UNCHANGED <<users, nextTok, last, inflight, medicines, ran, stamps>>

\* The requests of the specification of the medicine routes: a route takes
\* the id and the body that its handler reads.
NoBody ==
    [name |-> "", quantity |-> Null, expiryDate |-> "", description |-> "",
     createdBy |-> ""]

Requests ==
    [route : {"getMedicines"}, id : {1}, body : {NoBody}]
    \cup [route : {"getMedicineById", "deleteMedicine"}, id : MedicineIds,
          body : {NoBody}]
    \cup [route : {"createMedicine"}, id : {1}, body : CreateMedicineBodies]
    \cup [route : {"updateMedicine"}, id : MedicineIds,
          body : UpdateMedicineBodies]

\* ... and what they present: no header, the oldest and the newest token of
\* every user, one forgery.
Presented(tbl, t) ==
    {c \in Credentials(tbl, t) :
        /\ c.kind = "signed" => c.claims.exp \in {JwtExpiresIn, t + JwtExpiresIn}
        /\ c.kind = "forged" => c.claims.userId = 1 /\ c.claims.exp = JwtExpiresIn}

\* alice registers as admin or as patient, bob as doctor or without a role
\* (staff by default).
GuardBodies ==
    [username : {"alice"}, email : {"a@x.com"}, password : {"secret1"},
     role : {"admin", "patient"}]
    \cup [username : {"bob"}, email : {"b@x.com"}, password : {"secret1"},
          role : {"doctor", ""}]

---------------------------------------------------------------------------
(* The requests of the specification of account changes: an admin and a    *)
(* user of the default role, an update of the role and one of username and *)
(* password, password recovery with a password the store accepts and one   *)
(* it rejects.                                                             *)

ChangeBodies ==
    {[username |-> "alice", email |-> "a@x.com", password |-> "secret1",
      role |-> "admin"],
     [username |-> "bob", email |-> "b@x.com", password |-> "secret1",
      role |-> ""]}

ChangeUpdates ==
    {[username |-> "", email |-> "", password |-> "", role |-> "doctor"],
     [username |-> "carol", email |-> "", password |-> "newpass123", role |-> ""]}

ChangeEmails == {"a@x.com", "b@x.com"}

ChangePasswords == {"short", "newpass123"}

---------------------------------------------------------------------------
(* getRecentActivities: the activity feed over both tables.  The rows of   *)
(* the feed are the rows of the tables joined with their createdAt and     *)
(* updatedAt columns; a create sets both columns to the current time, a    *)
(* write of changed columns sets updatedAt.                                *)

FindAllLimit == 20    \* limit of each findAll
FeedSize == 5         \* merged.slice(0, 5)

Stamp(t) == [createdAt |-> t, updatedAt |-> t]

UserActivityRows(tbl, st) ==
    {[id |-> i, username |-> tbl[i].username,
      createdAt |-> st.users[i].createdAt,
      updatedAt |-> st.users[i].updatedAt] : i \in DOMAIN tbl}

MedicineActivityRows(meds, st) ==
    {[id |-> m.id, name |-> m.name, createdAt |-> x.createdAt,
      updatedAt |-> x.updatedAt, createdBy |-> m.createdBy] :
        <<m, x>> \in {<<r, y>> \in meds.rows \X st.medicines : r.id = y.id}}

\* findAll({ order: [["updatedAt", "DESC"]], limit }): the rows by updatedAt,
\* latest first; the order of rows with equal updatedAt is the store's
\* choice.
RECURSIVE OrderedByUpdatedAtDesc(_)
OrderedByUpdatedAtDesc(rows) ==
    IF rows = {} THEN {<<>>}
    ELSE UNION {{<<r>> \o rest : rest \in OrderedByUpdatedAtDesc(rows \ {r})} :
                  r \in {x \in rows : \A y \in rows : x.updatedAt >= y.updatedAt}}

Take(s, n) == SubSeq(s, 1, IF Len(s) < n THEN Len(s) ELSE n)

FindAllActivity(rows) == {Take(s, FindAllLimit) : s \in OrderedByUpdatedAtDesc(rows)}

ActivityAction(r) == IF r.createdAt = r.updatedAt THEN "created" ELSE "updated"

FormatMedicine(m) ==
    [type |-> "medicine", action |-> ActivityAction(m), name |-> m.name,
     user |-> IF m.createdBy = "" THEN Null ELSE m.createdBy,
     timestamp |-> m.updatedAt]

FormatUser(u) ==
    [type |-> "user", action |-> ActivityAction(u), username |-> u.username,
     timestamp |-> u.updatedAt]

\* Mutant: the merged list is left in the order of the concatenation.
SortByTimestampDesc_Unsorted(s) == s

\* Array.prototype.sort with (a, b) => b.timestamp - a.timestamp: latest
\* first, entries with equal timestamps keep their order (the sort is stable).
RECURSIVE SortByTimestampDesc(_)
SortByTimestampDesc(s) ==
    IF s = <<>> THEN <<>>
    ELSE LET sorted == SortByTimestampDesc(SubSeq(s, 1, Len(s) - 1))
             e == s[Len(s)]
             k == Cardinality({i \in DOMAIN sorted :
                                  sorted[i].timestamp >= e.timestamp})
         IN  SubSeq(sorted, 1, k) \o <<e>> \o SubSeq(sorted, k + 1, Len(sorted))

getRecentActivities(tbl, meds, st) ==
    {MedicineResponse(
         "getRecentActivities", 200, "",
         Take(SortByTimestampDesc([i \in DOMAIN ms |-> FormatMedicine(ms[i])]
                                  \o [i \in DOMAIN us |-> FormatUser(us[i])]),
              FeedSize)) :
        ms \in FindAllActivity(MedicineActivityRows(meds, st)),
        us \in FindAllActivity(UserActivityRows(tbl, st))}

GetRecentActivities ==
    /\ \E resp \in getRecentActivities(users, medicines, stamps) : last' = resp
    /\ UNCHANGED <<users, now, nextTok, inflight, medicines, ran, stamps>>

\* register, updateUser and the medicine handlers with the timestamp columns
\* that their writes maintain.
FeedRegister(body) ==
    /\ \E out \in RegisterOutcomes(users, body, now) :
          /\ users' = out.tbl
          /\ last' = out.resp
          /\ stamps' = IF Len(out.tbl) > Len(users)
                       THEN [stamps EXCEPT !.users = Append(@, Stamp(now))]
                       ELSE stamps
    /\ UNCHANGED <<now, nextTok, inflight, medicines, ran>>

FeedUpdateUser(reqUser, idParam, body) ==
    /\ \E out \in UpdateUserOutcomes(users, reqUser, idParam, body) :
          /\ users' = out.tbl
          /\ last' = out.resp
          /\ stamps' = IF /\ out.resp.status = 200
                          /\ UpdateAssign(reqUser, users[ParseInt(idParam)],
                                          body).changed # {}
                       THEN [stamps EXCEPT
                               !.users[ParseInt(idParam)].updatedAt = now]
                       ELSE stamps
    /\ UNCHANGED <<now, nextTok, inflight, medicines, ran>>

\* The timestamp columns of the Medicines table after a handler took it
\* from `meds` to `after` at time t.
StampMedicines(st, meds, after, t) ==
    {IF \E y \in st : y.id = m.id
     THEN LET y == CHOOSE z \in st : z.id = m.id
          IN  IF m \in meds.rows THEN y ELSE [y EXCEPT !.updatedAt = t]
     ELSE [id |-> m.id, createdAt |-> t, updatedAt |-> t] : m \in after.rows}

FeedMedicine(route, id, body) ==
    /\ route = "createMedicine" => medicines.nextId <= MaxFeedMedicines
    /\ \E out \in Handler(route, medicines, id, body) :
          /\ medicines' = out.tbl
          /\ last' = out.resp
          /\ stamps' = [stamps EXCEPT
                          !.medicines = StampMedicines(@, medicines, out.tbl, now)]
    /\ UNCHANGED <<users, now, nextTok, inflight, ran>>

FeedTick ==
    /\ now < MaxFeedTicks * TickMs
    /\ now' = now + TickMs
    /\ UNCHANGED <<users, nextTok, last, inflight, medicines, ran, stamps>>

\* The requests of the specification of the activity feed.
FeedRequests ==
    {[route |-> "createMedicine", id |-> 1,
      body |-> [NoBody EXCEPT !.name = "aspirin", !.expiryDate = "2027-01-01"]],
     [route |-> "updateMedicine", id |-> 1, body |-> [NoBody EXCEPT !.quantity = 7]],
     [route |-> "deleteMedicine", id |-> 2, body |-> NoBody]}

FeedUpdates ==
    {[username |-> "", email |-> "", password |-> "newpass123", role |-> ""]}

---------------------------------------------------------------------------
(* The clock *)

Tick ==
    /\ now < MaxTicks * TickMs
    /\ now' = now + TickMs
    /\ UNCHANGED <<users, nextTok, last, inflight, medicines, ran, stamps>>

---------------------------------------------------------------------------
(* Specifications *)

Init ==
    /\ users = <<>>
    /\ now = 0
    /\ nextTok = 0
    /\ last = NoResponse
    /\ inflight = [p \in Procs |-> {}]
    /\ medicines = [rows |-> {}, nextId |-> 1]
    /\ ran = NoRequest
    /\ stamps = [users |-> <<>>, medicines |-> {}]

\* Every flow, one request at a time.
Next ==
    \/ \E b \in RegisterBodies : Register(b)
    \/ \E e \in Emails, p \in Passwords : Login(e, p)
    \/ \E a \in AuthenticatedUsers(users) : GetProfile(a)
    \/ \E a \in AuthenticatedUsers(users), id \in IdParams, b \in UpdateBodies :
          UpdateUser(a, id, b)
    \/ \E e \in Emails, ok \in BOOLEAN : ForgotPassword(e, ok)
    \/ \E t \in TokenInputs, p \in Passwords : ResetPassword(t, p)
    \/ Tick

Spec == Init /\ [][Next]_vars

\* Accounts only: register, login, getProfile and updateUser over every body.
NextAccounts ==
    \/ \E b \in AllBodies : Register(b)
    \/ \E e \in Emails, p \in Passwords : Login(e, p)
    \/ \E a \in AuthenticatedUsers(users) : GetProfile(a)
    \/ \E a \in AuthenticatedUsers(users), id \in IdParams, b \in AllBodies :
          UpdateUser(a, id, b)

SpecAccounts == Init /\ [][NextAccounts]_vars

\* Two registrations side by side, each suspended at its await.
NextConcurrent ==
    \/ \E p \in Procs, b \in ConcurrentBodies : RegisterBegin(p, b)
    \/ \E p \in Procs : RegisterInsert(p)

SpecConcurrent == Init /\ [][NextConcurrent]_vars

\* forgotPassword and resetPassword side by side on one account.
NextResetRace ==
    \/ \E b \in RaceBodies : Register(b)
    \/ \E p \in Procs, e \in RaceEmails : ForgotFind(p, e)
    \/ \E p \in Procs : ForgotSave(p)
    \/ \E p \in Procs, t \in TokenInputs, pw \in RacePasswords :
          ResetFind(p, t, pw)
    \/ \E p \in Procs : ResetSave(p)
    \/ Tick

SpecResetRace == Init /\ [][NextResetRace]_vars

\* The medicine routes behind the Access Guard and the role filter.
NextGuard ==
    \/ \E b \in GuardBodies : Register(b)
    \/ \E r \in Requests, cred \in Presented(users, now) :
          MedicineRoute(r.route, cred, r.id, r.body)
    \/ SessionTick

SpecGuard == Init /\ [][NextGuard]_vars

\* Account changes: updates and password recovery on two accounts.
NextChanges ==
    \/ \E b \in ChangeBodies : Register(b)
    \/ Login("b@x.com", "secret1")
    \/ \E a \in AuthenticatedUsers(users) : GetProfile(a)
    \/ \E a \in AuthenticatedUsers(users), id \in IdParams, b \in ChangeUpdates :
          UpdateUser(a, id, b)
    \/ \E e \in ChangeEmails : ForgotPassword(e, TRUE)
    \/ \E t \in TokenInputs, p \in ChangePasswords : ResetPassword(t, p)
    \/ Tick

SpecChanges == Init /\ [][NextChanges]_vars

\* The activity feed beside the writes that it reports.
NextFeed ==
    \/ \E b \in ChangeBodies : FeedRegister(b)
    \/ \E a \in AuthenticatedUsers(users), b \in FeedUpdates :
          a.id = 1 /\ FeedUpdateUser(a, "1", b)
    \/ \E r \in FeedRequests : FeedMedicine(r.route, r.id, r.body)
    \/ GetRecentActivities
    \/ FeedTick

SpecFeed == Init /\ [][NextFeed]_vars

---------------------------------------------------------------------------
(* Claims *)

UnknownEmail(tbl, e) == e # "" /\ \A i \in DOMAIN tbl : tbl[i].email # e

\* The plaintext a stored password was derived from.
CurrentPassword(u) == u.password.text

WrongPassword(tbl, e, p) ==
    p # "" /\ \E i \in DOMAIN tbl : tbl[i].email = e /\ CurrentPassword(tbl[i]) # p

\* C1: a login with an unknown email and a login with a known email and a
\* wrong password get the same response: status 401 and the message
\* "Invalid email or password"; a failed login of either kind that was just
\* answered carries exactly that response.
C1_LoginFailuresIndistinguishable ==
    /\ \A e1 \in Emails, p1 \in Passwords, e2 \in Emails, p2 \in Passwords :
          (UnknownEmail(users, e1) /\ p1 # "" /\ WrongPassword(users, e2, p2))
          => /\ LoginResponse(users, e1, p1, now) = LoginResponse(users, e2, p2, now)
             /\ LoginResponse(users, e1, p1, now).status = 401
             /\ LoginResponse(users, e2, p2, now).message
                  = "Invalid email or password"
    /\ (last.op = "login" /\ last.status \notin {200, 400})
       => last = Response("login", 401, "Invalid email or password", <<>>, {}, {})

C1_Witness ==
    /\ last.op = "login" /\ last.status = 401
    /\ \E e \in Emails : UnknownEmail(users, e)
    /\ \E e \in Emails, p \in Passwords : WrongPassword(users, e, p)

ClaimsMatch(token, u) ==
    token.userId = u.id /\ token.email = u.email /\ token.role = u.role

\* C2: for every stored user, a login with the user's email and current
\* password succeeds and returns one token whose claims userId, email and
\* role are the id, email and role of the stored row; a login that was just
\* answered with success carries the claims of a stored row.
C2_LoginReturnsStoredClaims ==
    /\ \A i \in DOMAIN users :
          LET u == users[i]
              r == LoginResponse(users, u.email, CurrentPassword(u), now)
          IN  /\ r.status = 200
              /\ Cardinality(r.token) = 1
              /\ \A k \in r.token : ClaimsMatch(k, u)
    /\ (last.op = "login" /\ last.status = 200)
       => /\ Cardinality(last.token) = 1
          /\ \E i \in DOMAIN users : \A k \in last.token : ClaimsMatch(k, users[i])

C2_Witness ==
    /\ last.op = "login" /\ last.status = 200
    /\ \E k \in last.token : k.role = "staff"
    /\ \E i \in DOMAIN users : users[i].role = "admin"

\* A reset token that is set and whose expiry is in the future.
LiveToken(u, t) ==
    /\ u.resetPasswordToken # Null
    /\ u.resetPasswordExpires # Null
    /\ u.resetPasswordExpires > t

\* A password the store accepts.
AcceptablePassword(p) == Len(p) >= PasswordMinLen /\ Len(p) <= PasswordMaxLen

\* What C3 says of the outcome `r` of a reset of user i with password p,
\* `old` being the row before the reset.
ResetDone(r, i, p, old, t) ==
    /\ r.resp = ResetSuccessful
    /\ r.tbl[i].resetPasswordToken = Null
    /\ r.tbl[i].resetPasswordExpires = Null
    /\ LoginResponse(r.tbl, r.tbl[i].email, p, t).status = 200
    /\ CurrentPassword(old) # p
       => LoginResponse(r.tbl, r.tbl[i].email, CurrentPassword(old), t)
            = LoginInvalidPassword

\* C3: for an existing user, forgotPassword leaves a token on the user that
\* has not expired, and a resetPassword with a token that has not expired
\* and a new password the store accepts succeeds, leaves both reset columns
\* null, and afterwards a login with the new password succeeds and a login
\* with the old password (when it is another password) is answered
\* 401 "Invalid email or password".
C3_ForgotThenReset ==
    /\ \A i \in DOMAIN users, ok \in BOOLEAN :
          \A f \in ForgotPasswordOutcomes(users, users[i].email, ok, nextTok, now) :
             /\ LiveToken(f.tbl[i], now)
             /\ \A p \in Passwords :
                   AcceptablePassword(p)
                   => \A r \in ResetPasswordOutcomes(
                                  f.tbl, f.tbl[i].resetPasswordToken, p, now) :
                         ResetDone(r, i, p, users[i], now)
    /\ \A i \in DOMAIN users, p \in Passwords :
          (LiveToken(users[i], now) /\ AcceptablePassword(p))
          => \A r \in ResetPasswordOutcomes(
                         users, users[i].resetPasswordToken, p, now) :
                ResetDone(r, i, p, users[i], now)

C3_Witness ==
    /\ last = ResetSuccessful
    /\ now > 0
    /\ \E i \in DOMAIN users :
          /\ users[i].resetPasswordToken = Null
          /\ users[i].resetPasswordExpires = Null
          /\ LoginResponse(users, users[i].email, "newpass123", now).status = 200
          /\ LoginResponse(users, users[i].email, "secret1", now).status = 401

\* No row holds `token` with an expiry in the future.
NoLiveMatch(tbl, token, t) ==
    \A i \in DOMAIN tbl :
        tbl[i].resetPasswordToken = token => ~(tbl[i].resetPasswordExpires > t)

\* C4 as claimed: a resetPassword with a token that no row holds unexpired is
\* answered "Invalid or expired token" and changes no row, whatever the new
\* password is, the empty one included.
C4_AnyPasswordInvalidToken ==
    \A tok \in TokenInputs \ {NoToken}, p \in Passwords :
        NoLiveMatch(users, tok, now)
        => ResetPasswordOutcomes(users, tok, p, now)
             = {Result(users, InvalidOrExpiredToken)}

\* C4 as amended: a resetPassword with a token that no row holds unexpired
\* changes no row; it is answered "Invalid or expired token" when the new
\* password is not empty, acceptable to the store or not, and "Token and new
\* password are required" when the new password is empty or missing.
C4_InvalidTokenRejected ==
    \A tok \in TokenInputs \ {NoToken}, p \in Passwords :
        NoLiveMatch(users, tok, now)
        => ResetPasswordOutcomes(users, tok, p, now)
             = {Result(users, IF p = "" THEN TokenRequired
                              ELSE InvalidOrExpiredToken)}

C4_Witness ==
    /\ last = InvalidOrExpiredToken
    /\ \E i \in DOMAIN users :
          /\ users[i].resetPasswordToken # Null
          /\ users[i].resetPasswordExpires <= now

\* The id of row i as a path parameter.
IdParam(i) == CHOOSE s \in IdParams : ParseInt(s) = i

\* Another row than row i holds value v in column f.
Taken(tbl, i, f, v) == \E j \in DOMAIN tbl : j # i /\ tbl[j][f] = v

\* The username, email and password that body b supplies are well-formed.
SuppliedWellFormed(b) ==
    /\ b.username # ""
       => Len(b.username) >= UsernameMinLen /\ Len(b.username) <= UsernameMaxLen
    /\ b.email # "" => IsEmail(b.email)
    /\ b.password # "" => AcceptablePassword(b.password)

\* ... and the username and email are free for row i.
SuppliedFree(tbl, i, b) ==
    /\ b.username # "" => ~Taken(tbl, i, "username", b.username)
    /\ b.email # "" => ~Taken(tbl, i, "email", b.email)

\* Row i of the outcome carries what body b supplies and keeps the rest.
SuppliedApplied(out, tbl, i, b) ==
    /\ out.tbl[i].username = IF b.username # "" THEN b.username ELSE tbl[i].username
    /\ out.tbl[i].email = IF b.email # "" THEN b.email ELSE tbl[i].email
    /\ IF b.password # ""
       THEN bcryptCompare(b.password, out.tbl[i].password)
       ELSE out.tbl[i].password = tbl[i].password

\* C5: an updateUser by a user who is not admin on the user's own id, with
\* well-formed and free username, email and password, is answered 200, row
\* i carries the supplied username, email and password, and whatever role
\* the body has (valid or not) the stored role is unchanged and no error is
\* reported.
C5_SelfUpdateIgnoresRole ==
    \A i \in DOMAIN users, b \in AllBodies :
        (users[i].role # "admin" /\ SuppliedWellFormed(b)
            /\ SuppliedFree(users, i, b))
        => \A out \in UpdateUserOutcomes(users, users[i], IdParam(i), b) :
              /\ out.resp.op = "updateUser"
              /\ out.resp.status = 200
              /\ out.resp.errors = <<>>
              /\ SuppliedApplied(out, users, i, b)
              /\ out.tbl[i].role = users[i].role

C5_Witness ==
    /\ last.op = "updateUser" /\ last.status = 200
    /\ \A i \in DOMAIN users : users[i].role # "admin"
    /\ \E i \in DOMAIN users :
          /\ users[i].username = "bob" /\ users[i].email = "a@x.com"
          /\ CurrentPassword(users[i]) = "newpass123"

\* C6: an updateUser by a user who is not admin on the id of another stored
\* user is answered 403 and changes no row; the same request by an admin,
\* with well-formed and free values and a role of the enumeration (or none),
\* is answered 200 and stores the role of the body on the target.
C6_UpdateOthersAdminOnly ==
    \A a \in DOMAIN users, i \in DOMAIN users, b \in AllBodies :
        a # i
        => /\ users[a].role # "admin"
              => UpdateUserOutcomes(users, users[a], IdParam(i), b)
                   = {Result(users, UnauthorizedToUpdate)}
           /\ (users[a].role = "admin" /\ SuppliedWellFormed(b)
                  /\ SuppliedFree(users, i, b) /\ b.role \in Roles \cup {""})
              => \A out \in UpdateUserOutcomes(users, users[a], IdParam(i), b) :
                    /\ out.resp.status = 200
                    /\ SuppliedApplied(out, users, i, b)
                    /\ b.role # "" => out.tbl[i].role = b.role

C6_Witness ==
    /\ last = UnauthorizedToUpdate
    /\ \E i \in DOMAIN users : users[i].role = "admin"
    /\ \E i \in DOMAIN users : users[i].role = "doctor"

\* Bodies that supply no password.
NoPasswordBodies ==
    [username : {"", "bob"}, email : {"", "b@x.com"}, password : {""},
     role : {"", "admin"}]

\* C7: every stored password is a bcrypt hash, hashed once, of the password
\* that was submitted (never the submitted text itself), and a write that
\* sets no password (forgotPassword, updateUser without a password) leaves
\* every stored hash as it is.
C7_PasswordsStoredHashed ==
    /\ \A i \in DOMAIN users :
          /\ IsHash(users[i].password)
          /\ users[i].password.depth = 1
          /\ users[i].password # Plain(CurrentPassword(users[i]))
    /\ \A i \in DOMAIN users, ok \in BOOLEAN :
          \A f \in ForgotPasswordOutcomes(users, users[i].email, ok, nextTok, now) :
             \A j \in DOMAIN users : f.tbl[j].password = users[j].password
    /\ \A a \in DOMAIN users, i \in DOMAIN users, b \in NoPasswordBodies :
          \A out \in UpdateUserOutcomes(users, users[a], IdParam(i), b) :
             \A j \in DOMAIN users : out.tbl[j].password = users[j].password

C7_Witness ==
    /\ last = ResetSuccessful
    /\ \E i \in DOMAIN users : CurrentPassword(users[i]) = "newpass123"
    /\ \E i \in DOMAIN users :
          CurrentPassword(users[i]) = "secret1" /\ users[i].resetPasswordToken # Null

\* C8: the user and the token of a response never have a password field.
C8_NoPasswordInResponses ==
    /\ \A j \in last.user : "password" \notin DOMAIN j
    /\ \A k \in last.token : "password" \notin DOMAIN k

C8_Witness ==
    /\ last.op = "login" /\ last.status = 200
    /\ \E j \in last.user : "email" \in DOMAIN j

\* The answered register request of slot p, if any.
Answered(p) == {r \in inflight[p] : r.op = "register" /\ r.pc = "done"}

\* The request passed the presence check and the validators.
WellFormedRegistration(r) ==
    /\ Len(r.inst.username) >= UsernameMinLen
    /\ Len(r.inst.username) <= UsernameMaxLen
    /\ IsEmail(r.inst.email)
    /\ AcceptablePassword(r.inst.password.text)
    /\ r.inst.role \in Roles

RowsWithEmail(tbl, e) == {i \in DOMAIN tbl : tbl[i].email = e}

\* Of two answered registrations, w won and l lost on the columns `fields`.
WonAndLost(w, l, fields) ==
    /\ w.resp.status = 201
    /\ Cardinality(w.resp.token) = 1
    /\ l.resp \in {AlreadyExists("register", f) : f \in fields}
    /\ l.resp.token = {} /\ l.resp.user = {}
    /\ Cardinality(RowsWithEmail(users, w.inst.email)) = 1

\* C9 as claimed: of two well-formed registrations with the same email, one
\* succeeds and the other is answered "email already exists", without a
\* user or a token, and one row holds the email.
C9_SameEmailNamesEmail ==
    \A p \in Procs, q \in Procs : \A r1 \in Answered(p), r2 \in Answered(q) :
        (p # q /\ WellFormedRegistration(r1) /\ WellFormedRegistration(r2)
            /\ r1.inst.email = r2.inst.email)
        => \/ WonAndLost(r1, r2, {"email"})
           \/ WonAndLost(r2, r1, {"email"})

\* C9 as amended: of two well-formed registrations with the same email, run
\* one after the other or side by side, one succeeds and the other creates
\* no user and gets no token; it is answered "email already exists" when
\* the usernames differ, and "username already exists" or "email already
\* exists" when the two carry the same username as well.
C9_SameEmailOneWins ==
    \A p \in Procs, q \in Procs : \A r1 \in Answered(p), r2 \in Answered(q) :
        (p # q /\ WellFormedRegistration(r1) /\ WellFormedRegistration(r2)
            /\ r1.inst.email = r2.inst.email)
        => LET fields == IF r1.inst.username = r2.inst.username
                         THEN {"username", "email"} ELSE {"email"}
           IN  \/ WonAndLost(r1, r2, fields)
               \/ WonAndLost(r2, r1, fields)

\* Both requests began on the empty table: the loser was in flight when the
\* winner's row was inserted.
C9_Witness ==
    \E r1 \in Answered(1), r2 \in Answered(2) :
        /\ r1.began = 0 /\ r2.began = 0
        /\ r1.inst.email = r2.inst.email
        /\ r1.inst.username # r2.inst.username
        /\ r1.resp.status = 201
        /\ r2.resp = AlreadyExists("register", "email")

\* The unique columns on which body b collides with another row than row i.
Collisions(tbl, i, b) ==
    {f \in {"username", "email"} : b[f] # "" /\ Taken(tbl, i, f, b[f])}

\* C10: no two rows share a username and no two share an email; an
\* updateUser that is permitted and well-formed and whose username or email
\* is taken by another row is answered "<column> already exists" for a
\* column that collides, and changes no row.
C10_UniqueUsernameEmail ==
    /\ \A i \in DOMAIN users, j \in DOMAIN users :
          i # j => /\ users[i].username # users[j].username
                   /\ users[i].email # users[j].email
    /\ \A a \in DOMAIN users, i \in DOMAIN users, b \in AllBodies :
          (/\ users[a].role = "admin" \/ a = i
           /\ SuppliedWellFormed(b)
           /\ users[a].role = "admin" => b.role \in Roles \cup {""}
           /\ Collisions(users, i, b) # {})
          => \A out \in UpdateUserOutcomes(users, users[a], IdParam(i), b) :
                /\ out.tbl = users
                /\ out.resp \in {AlreadyExists("updateUser", f) :
                                    f \in Collisions(users, i, b)}

C10_Witness ==
    /\ last = AlreadyExists("updateUser", "email")
    /\ Len(users) = 2

\* Row `after` is row `before` with the password p hashed and both reset
\* columns cleared.
Consumed(before, after, p) ==
    /\ bcryptCompare(p, after.password)
    /\ after = [before EXCEPT !.password = after.password,
                              !.resetPasswordToken = Null,
                              !.resetPasswordExpires = Null]

\* C11: on every row resetPasswordToken and resetPasswordExpires are both
\* null or both set; forgotPassword for a stored email leaves both set on
\* that row (a fresh token, expiry one hour ahead) in its one save; and
\* resetPassword leaves every row as it was except, when it succeeds, the
\* row found, where the same save stores the hashed new password and nulls
\* both columns.
C11_ResetFieldsPaired ==
    /\ \A i \in DOMAIN users :
          users[i].resetPasswordToken = Null
             <=> users[i].resetPasswordExpires = Null
    /\ \A i \in DOMAIN users, ok \in BOOLEAN :
          \A f \in ForgotPasswordOutcomes(users, users[i].email, ok, nextTok, now) :
             /\ f.tbl[i].resetPasswordToken = RandomToken(nextTok)
             /\ f.tbl[i].resetPasswordExpires = now + ResetTokenTtl
    /\ \A T \in TokenInputs, p \in Passwords :
          \A out \in ResetPasswordOutcomes(users, T, p, now) :
             /\ DOMAIN out.tbl = DOMAIN users
             /\ \A i \in DOMAIN users :
                   \/ out.tbl[i] = users[i] /\ out.resp # ResetSuccessful
                   \/ out.tbl[i] = users[i] /\ users[i].resetPasswordToken # T
                   \/ /\ out.resp = ResetSuccessful
                      /\ users[i].resetPasswordToken = T
                      /\ Consumed(users[i], out.tbl[i], p)

C11_Witness ==
    /\ last = ResetSuccessful
    /\ \E i \in DOMAIN users :
          /\ users[i].resetPasswordToken = Null
          /\ users[i].resetPasswordExpires = Null
          /\ CurrentPassword(users[i]) = "newpass123"
    /\ \E j \in DOMAIN users :
          /\ users[j].resetPasswordToken # Null
          /\ users[j].resetPasswordExpires # Null

\* Token T was issued and no row holds it any more.
Spent(tbl, n, T) ==
    /\ T \in 1 .. n
    /\ \A i \in DOMAIN tbl : tbl[i].resetPasswordToken # T

\* The step is a successful resetPassword with token T.
ConsumedBy(T) ==
    /\ last' = ResetSuccessful
    /\ \E i \in DOMAIN users :
          /\ users[i].resetPasswordToken = T
          /\ users'[i].resetPasswordToken = Null

\* resetPassword with token T and any non-empty password is answered
\* "Invalid or expired token" and writes nothing.
Rejected(tbl, T, t) ==
    \A p \in Passwords \ {""} :
        ResetPasswordOutcomes(tbl, T, p, t) = {Result(tbl, InvalidOrExpiredToken)}

\* C12: a reset token is single-use.  The step in which resetPassword
\* succeeds with token T leaves T on no row, a token that was issued and is
\* on no row never comes back, and in each of these states resetPassword
\* with T and any non-empty password is answered "Invalid or expired token"
\* and changes no row.
C12_TokenSingleUse ==
    [][\A T \in 1 .. MaxResetTokens :
          (Spent(users, nextTok, T) \/ ConsumedBy(T))
          => /\ Spent(users', nextTok', T)
             /\ Rejected(users', T, now')]_vars

C12_Witness ==
    /\ last = InvalidOrExpiredToken
    /\ nextTok = 1 /\ now = 0
    /\ Spent(users, nextTok, 1)
    /\ \E i \in DOMAIN users : CurrentPassword(users[i]) = "newpass123"

\* C13 as claimed: forgotPassword for the email of a stored user is
\* answered "Password reset email sent" whether sendMail resolves or rejects.
C13_SentWhateverTheMail ==
    \A i \in DOMAIN users, ok \in BOOLEAN :
        \A f \in ForgotPasswordOutcomes(users, users[i].email, ok, nextTok, now) :
           f.resp = ResetEmailSent

\* C13 as amended: forgotPassword for the email of a stored user persists
\* the token; it is answered "Password reset email sent" when sendMail
\* resolves and 500 "Internal server error" when sendMail rejects, the token
\* staying on the row.
C13_MailFailureIsAnError ==
    /\ \A i \in DOMAIN users, ok \in BOOLEAN :
          \A f \in ForgotPasswordOutcomes(users, users[i].email, ok, nextTok, now) :
             /\ f.resp = IF ok THEN ResetEmailSent
                        ELSE InternalServerError("forgotPassword")
             /\ f.tbl[i].resetPasswordToken = RandomToken(nextTok)
    /\ last = InternalServerError("forgotPassword")
       => \E i \in DOMAIN users : users[i].resetPasswordToken = nextTok

C13_Witness ==
    /\ last = InternalServerError("forgotPassword")
    /\ \E i \in DOMAIN users :
          /\ users[i].resetPasswordToken = nextTok
          /\ users[i].resetPasswordExpires = now + ResetTokenTtl

\* The response is the 400 "Validation failed" that lists the role message.
RoleRejected(resp) ==
    /\ resp.status = 400
    /\ resp.message = "Validation failed"
    /\ \E k \in DOMAIN resp.errors :
          resp.errors[k] = "Role must be admin, doctor, staff, or patient"

AcceptedTokens(tbl, i, t) ==
    {T \in 1 .. MaxResetTokens + 2 : FindByResetToken(tbl, T, t) = {tbl[i]}}

\* C18: after two forgotPassword calls for the same user with no reset in
\* between (the second at once or a tick later), resetPassword with the
\* first token is answered "Invalid or expired token" and changes nothing,
\* resetPassword with the second token and an acceptable password succeeds
\* on that user, and at any time at most one token is accepted per user.
C18_SecondForgotOverwrites ==
    /\ \A i \in DOMAIN users : Cardinality(AcceptedTokens(users, i, now)) <= 1
    /\ \A i \in DOMAIN users, ok1 \in BOOLEAN, ok2 \in BOOLEAN,
          t2 \in {now, now + TickMs} :
          \A f1 \in ForgotPasswordOutcomes(users, users[i].email, ok1, nextTok, now) :
             \A f2 \in ForgotPasswordOutcomes(f1.tbl, users[i].email, ok2,
                                              nextTok + 1, t2) :
                /\ Rejected(f2.tbl, RandomToken(nextTok), t2)
                /\ AcceptedTokens(f2.tbl, i, t2) = {RandomToken(nextTok + 1)}
                /\ \A p \in {q \in Passwords : AcceptablePassword(q)} :
                      \A out \in ResetPasswordOutcomes(f2.tbl, RandomToken(nextTok + 1),
                                                      p, t2) :
                         /\ out.resp = ResetSuccessful
                         /\ Consumed(f2.tbl[i], out.tbl[i], p)

C18_Witness ==
    /\ last = InvalidOrExpiredToken
    /\ nextTok = 2 /\ now = 0 /\ Len(users) = 1
    /\ users[1].resetPasswordToken = 2
    /\ CurrentPassword(users[1]) = "secret1"

\* The answered resetPassword of slot p, if it succeeded.
ResetSucceeded(p) ==
    {r \in inflight[p] : /\ r.op = "resetPassword" /\ r.pc = "done"
                         /\ r.resp = ResetSuccessful}

\* C19: of two resetPassword requests with the same token, side by side,
\* at most one is answered "Password reset successful".
C19_TokenConsumedOnce ==
    \A p \in Procs, q \in Procs :
        \A r1 \in ResetSucceeded(p), r2 \in ResetSucceeded(q) :
           p # q => r1.token # r2.token

\* Token T is on row i and has not expired at time t.
Live(tbl, i, T, t) ==
    /\ tbl[i].resetPasswordToken = T
    /\ tbl[i].resetPasswordExpires # Null
    /\ tbl[i].resetPasswordExpires > t

\* The step is the save of a resetPassword that carries token T.
ResetSaveWith(T) ==
    \E p \in Procs : \E r \in inflight[p] :
        /\ r.op = "resetPassword" /\ r.pc = "save" /\ r.token = T
        /\ Idle(p)'

\* The step is the save of a forgotPassword for row i.
ForgotSaveFor(i) ==
    \E p \in Procs : \E r \in inflight[p] :
        /\ r.op = "forgotPassword" /\ r.pc = "save" /\ r.inst.id = i
        /\ Idle(p)'

\* C20: a token that forgotPassword issued for a user and that is accepted
\* stays accepted after every step, unless the step is a resetPassword with
\* this token saving, a forgotPassword for this user saving, or the clock
\* reaching the expiry.
C20_TokenStaysAccepted ==
    [][\A i \in DOMAIN users, T \in 1 .. MaxResetTokens :
          (Live(users, i, T, now) /\ users[i].resetPasswordExpires > now')
          => \/ Live(users', i, T, now')
             \/ ResetSaveWith(T)
             \/ ForgotSaveFor(i)]_vars

\* The token that was signed for row i at time t0, as a request presents it.
Session(i, t0) == [kind |-> "signed", claims |-> generateToken(users[i], t0)]

\* The request was rejected by authenticateToken: nothing else ran, the
\* Medicines table is as it was.
RejectedUnauthenticated(out, route) ==
    /\ out.stages = <<"authenticateToken">>
    /\ out.attached = {}
    /\ out.resp = Unauthenticated(route)
    /\ out.tbl = medicines

\* C14: a token signed for a stored user at t0 and presented on a medicine
\* route at t0 + 7 days or later is rejected 401 by authenticateToken;
\* neither the role filter nor the handler runs.
C14_ExpiredSessionRejected ==
    \A i \in DOMAIN users, t0 \in IssueTimes(now), r \in Requests :
        now >= t0 + JwtExpiresIn
        => \A out \in RouteOutcomes(users, medicines, r.route, Session(i, t0),
                                   r.id, r.body, now) :
              RejectedUnauthenticated(out, r.route)

C14_Witness ==
    /\ ran.route = "deleteMedicine"
    /\ ran.cred.kind = "signed"
    /\ now >= ran.cred.claims.exp
    /\ ran.stages = <<"authenticateToken">>
    /\ last = Unauthenticated("deleteMedicine")
    /\ medicines.rows # {}

\* Authentication accepts what the request presents.
Authentic(cred) ==
    /\ cred.kind = "signed"
    /\ now < cred.claims.exp
    /\ \E i \in DOMAIN users : users[i].id = cred.claims.userId

\* The request was rejected by the role filter: the handler did not run, the
\* Medicines table is as it was.
RejectedForbidden(out, route) ==
    /\ out.stages = <<"authenticateToken", "requireRole">>
    /\ out.resp = Forbidden(route)
    /\ out.tbl = medicines

C16_DeleteAdminOnly ==
    (/\ ran.route = "deleteMedicine"
     /\ last.status = 200
     /\ last.message = "Medicine deleted successfully")
    => \A u \in ran.attached : u.role = "admin"

\* The reset columns of a row.
ResetFields(u) == <<u.resetPasswordToken, u.resetPasswordExpires>>

\* What every state satisfies for C21: the expiry that forgotPassword
\* stores and the acceptance of the token that a row holds.
C21_ExpiryDecides ==
    /\ \A i \in DOMAIN users, ok \in BOOLEAN :
          \A f \in ForgotPasswordOutcomes(users, users[i].email, ok, nextTok, now) :
             /\ f.tbl[i].resetPasswordToken = RandomToken(nextTok)
             /\ f.tbl[i].resetPasswordExpires = now + ResetTokenTtl
    /\ \A i \in DOMAIN users, p \in Passwords \ {""} :
          users[i].resetPasswordToken # Null
          => LET outs == ResetPasswordOutcomes(
                            users, users[i].resetPasswordToken, p, now)
             IN  IF now < users[i].resetPasswordExpires
                 THEN /\ \A r \in outs : r.resp # InvalidOrExpiredToken
                      /\ AcceptablePassword(p)
                         => \A r \in outs : r.resp = ResetSuccessful
                 ELSE outs = {Result(users, InvalidOrExpiredToken)}

\* What every step satisfies for C21: reset columns that have expired change
\* only by being overwritten with a new token and its expiry.
C21_ExpiredFieldsStay ==
    \A i \in DOMAIN users :
        (/\ users[i].resetPasswordToken # Null
         /\ users[i].resetPasswordExpires <= now
         /\ ResetFields(users'[i]) # ResetFields(users[i]))
        => /\ users'[i].resetPasswordToken = RandomToken(nextTok)
           /\ users'[i].resetPasswordToken # users[i].resetPasswordToken
           /\ users'[i].resetPasswordExpires = now + ResetTokenTtl

\* C21: forgotPassword at time t stores the expiry t + 1 hour; a
\* resetPassword with the token of a row is accepted exactly when the
\* current time is strictly less than that expiry, at or after it the answer
\* is "Invalid or expired token" and no row changes; the expired token and
\* expiry stay on the row until a forgotPassword overwrites them.
C21_ResetTokenExpiry == [](C21_ExpiryDecides) /\ [][C21_ExpiredFieldsStay]_vars

C21_Witness ==
    /\ last = InvalidOrExpiredToken
    /\ now = ResetTokenTtl
    /\ \E i \in DOMAIN users :
          /\ users[i].resetPasswordToken # Null
          /\ users[i].resetPasswordExpires = now

\* Bodies of updateUser with every combination of present and absent fields.
PartialBodies ==
    [username : {"", "carol"}, email : {"", "b@x.com"},
     password : {"", "newpass123"}, role : {"", "doctor"}]

\* Row `new` differs from row `old` at most in the fields that body b of
\* the acting user a may change.
OnlySuppliedChanged(old, new, a, b) ==
    /\ new.id = old.id
    /\ ResetFields(new) = ResetFields(old)
    /\ b.username = "" => new.username = old.username
    /\ b.email = "" => new.email = old.email
    /\ b.password = "" => new.password = old.password
    /\ ~(a.role = "admin" /\ b.role # "") => new.role = old.role

RolesKept(tbl, after) ==
    \A i \in DOMAIN tbl : i \in DOMAIN after /\ after[i].role = tbl[i].role

\* What every state satisfies for C23: a forgotPassword, a resetPassword
\* and an updateUser by a user who is not admin change no role.
C23_OthersKeepRoles ==
    /\ \A e \in ChangeEmails, ok \in BOOLEAN :
          \A out \in ForgotPasswordOutcomes(users, e, ok, nextTok, now) :
             RolesKept(users, out.tbl)
    /\ \A tok \in TokenInputs, p \in ChangePasswords :
          \A out \in ResetPasswordOutcomes(users, tok, p, now) :
             RolesKept(users, out.tbl)
    /\ \A a \in AuthenticatedUsers(users), idp \in IdParams, b \in PartialBodies :
          a.role # "admin"
          => \A out \in UpdateUserOutcomes(users, a, idp, b) :
                RolesKept(users, out.tbl)

\* The step is an updateUser, answered 200, of an admin with a role in the
\* body.
AdminRoleUpdate ==
    \E a \in AuthenticatedUsers(users), idp \in IdParams,
       b \in ChangeUpdates \cup PartialBodies :
        /\ a.role = "admin"
        /\ b.role # ""
        /\ \E out \in UpdateUserOutcomes(users, a, idp, b) :
              /\ out.resp.status = 200
              /\ users' = out.tbl
              /\ last' = out.resp

\* What every step satisfies for C23: the role of a stored user changes
\* only in an updateUser of an admin.
C23_RoleStep ==
    (\E i \in DOMAIN users : users'[i].role # users[i].role) => AdminRoleUpdate

\* C23: the role of a stored user changes only through an updateUser whose
\* acting user is admin; login, getProfile, forgotPassword, resetPassword
\* and an updateUser by a user who is not admin leave every role unchanged.
C23_RoleChangesByAdminOnly == [](C23_OthersKeepRoles) /\ [][C23_RoleStep]_vars

C23_Witness ==
    /\ last.op = "updateUser" /\ last.status = 200
    /\ \E i \in DOMAIN users : users[i].username = "bob" /\ users[i].role = "doctor"
    /\ \E i \in DOMAIN users : users[i].role = "admin"

\* Row `new` is row `old` after a reset to password p: the password is the
\* hash of p, both reset columns are null, the rest is as before.
ResetOf(old, new, p) ==
    /\ bcryptCompare(p, new.password)
    /\ ResetFields(new) = <<Null, Null>>
    /\ new.id = old.id
    /\ new.username = old.username
    /\ new.email = old.email
    /\ new.role = old.role

\* C24: a resetPassword that is answered "Password reset successful"
\* changed the password and the reset columns of the one row whose
\* resetPasswordToken is the token of the request and nothing else; every
\* other row is as before, and a resetPassword with another answer changes
\* no row.
C24_ResetChangesTokenOwnerOnly ==
    \A tok \in TokenInputs, p \in ChangePasswords :
        \A out \in ResetPasswordOutcomes(users, tok, p, now) :
           /\ DOMAIN out.tbl = DOMAIN users
           /\ out.resp # ResetSuccessful => out.tbl = users
           /\ out.resp = ResetSuccessful
              => \E i \in DOMAIN users :
                    /\ users[i].resetPasswordToken = tok
                    /\ ResetOf(users[i], out.tbl[i], p)
                    /\ \A j \in DOMAIN users \ {i} :
                          /\ out.tbl[j] = users[j]
                          /\ users[j].resetPasswordToken # tok

C24_Witness ==
    /\ last = ResetSuccessful
    /\ \E i, j \in DOMAIN users :
          /\ i # j
          /\ users[i].username = "alice"
          /\ CurrentPassword(users[i]) = "newpass123"
          /\ ResetFields(users[i]) = <<Null, Null>>
          /\ CurrentPassword(users[j]) = "secret1"
          /\ users[j].resetPasswordToken # Null
          /\ users[j].resetPasswordExpires > now

\* A password of 101 characters.
LongPassword ==
    "xxxxxxxxxxxxxxxxxxxxxxxxxxxxxxxxxxxxxxxxxxxxxxxxxxxxxxxxxxxxxxxxxxxxxxxxxxxxxxxxxxxxxxxxxxxxxxxxxxxxx"

\* Non-empty passwords the store rejects: shorter than 6, longer than 100.
RejectedPasswords == {"short", LongPassword}

\* C25: a resetPassword with the unexpired token of a row and a non-empty
\* new password of fewer than 6 or more than 100 characters is answered 500
\* "Internal server error" and changes no row: password, token and expiry
\* are as before, and a resetPassword with the same token and a password
\* the store accepts, now or at a later time before the expiry, succeeds.
C25_RejectedPasswordKeepsToken ==
    \A i \in DOMAIN users, p \in RejectedPasswords :
        LiveToken(users[i], now)
        => LET tok == users[i].resetPasswordToken
           IN  /\ ~AcceptablePassword(p)
               /\ ResetPasswordOutcomes(users, tok, p, now)
                    = {Result(users, InternalServerError("resetPassword"))}
               /\ \A t \in {now, now + TickMs} :
                     t < users[i].resetPasswordExpires
                     => \A r \in ResetPasswordOutcomes(users, tok, "newpass123", t) :
                           /\ r.resp = ResetSuccessful
                           /\ ResetOf(users[i], r.tbl[i], "newpass123")

C25_Witness ==
    /\ last = InternalServerError("resetPassword")
    /\ now > 0
    /\ \E i \in DOMAIN users :
          /\ LiveToken(users[i], now)
          /\ CurrentPassword(users[i]) = "secret1"

\* The tag that C26 gives a record.
Tag(r) == IF r.createdAt = r.updatedAt THEN "created" ELSE "updated"

\* Entry e of the feed reports user row u / medicine row m.
ReportsUser(e, u) ==
    /\ e.type = "user"
    /\ e.username = u.username
    /\ e.timestamp = u.updatedAt
    /\ e.action = Tag(u)

ReportsMedicine(e, m) ==
    /\ e.type = "medicine"
    /\ e.name = m.name
    /\ e.timestamp = m.updatedAt
    /\ e.action = Tag(m)

\* The feed `d` over the user rows U and the medicine rows M: at most 5
\* entries, latest first, each the report of a row, no row reported more
\* often than there are rows like it, and every row updated later than the
\* last entry reported.
IsFeedOf(d, U, M) ==
    LET n == Cardinality(U) + Cardinality(M)
        At(t) == {i \in DOMAIN d : d[i].timestamp = t}
    IN  /\ Len(d) = IF n < 5 THEN n ELSE 5
        /\ \A i, j \in DOMAIN d : i < j => d[i].timestamp >= d[j].timestamp
        /\ \A i \in DOMAIN d :
              \/ \E u \in U : ReportsUser(d[i], u)
              \/ \E m \in M : ReportsMedicine(d[i], m)
        /\ \A u \in U :
              Cardinality({i \in DOMAIN d : ReportsUser(d[i], u)})
                <= Cardinality({v \in U : v.username = u.username
                                          /\ v.updatedAt = u.updatedAt
                                          /\ Tag(v) = Tag(u)})
        /\ \A m \in M :
              Cardinality({i \in DOMAIN d : ReportsMedicine(d[i], m)})
                <= Cardinality({v \in M : v.name = m.name
                                          /\ v.updatedAt = m.updatedAt
                                          /\ Tag(v) = Tag(m)})
        /\ d # <<>>
           => \A t \in {r.updatedAt : r \in U} \cup {r.updatedAt : r \in M} :
                 t > d[Len(d)].timestamp
                 => Cardinality(At(t))
                      = Cardinality({r \in U : r.updatedAt = t})
                        + Cardinality({r \in M : r.updatedAt = t})

\* What every state satisfies for C26: every answer of getRecentActivities
\* is 200 with the feed of the two tables.
C26_FeedIsLatestFive ==
    \A resp \in getRecentActivities(users, medicines, stamps) :
        /\ resp.status = 200
        /\ IsFeedOf(resp.data, UserActivityRows(users, stamps),
                    MedicineActivityRows(medicines, stamps))

\* What every step satisfies for C26: the step that answers with the feed
\* writes no table and no timestamp.
C26_FeedReadsOnly ==
    last'.op = "getRecentActivities"
    => UNCHANGED <<users, medicines, stamps>>

\* C26: getRecentActivities answers with at most 5 entries, sorted by
\* updatedAt descending, that are the most recently updated rows of Users
\* and Medicines together; an entry is tagged "created" when createdAt
\* equals updatedAt of its row and "updated" otherwise; no row is modified.
C26_ActivityFeed == [](C26_FeedIsLatestFive) /\ [][C26_FeedReadsOnly]_vars

C26_Witness ==
    /\ last.op = "getRecentActivities"
    /\ Len(last.data) = 5
    /\ Len(users) + Cardinality(medicines.rows) > 5
    /\ \E i, j \in DOMAIN last.data :
          /\ last.data[i].type = "user" /\ last.data[i].action = "updated"
          /\ last.data[j].type = "medicine" /\ last.data[j].action = "created"
          /\ last.data[i].timestamp > last.data[j].timestamp
    /\ \E m \in MedicineActivityRows(medicines, stamps) :
          m.updatedAt > m.createdAt

====
